---- MODULE Spec2Model ----
(***************************************************************************)
(* Model of the budouy crate: the boundary scorer (src/src/parser.rs), the *)
(* model loader (src/src/model.rs) and the HTML tree applier               *)
(* (src/src/html_processor.rs).                                            *)
(*                                                                         *)
(* Text is a sequence of one-character strings; offsets are the 0-based    *)
(* char offsets of the Rust code, so chars[s..e] is SubSeq(chars, s+1, e). *)
(* f64 scores are kept in units of one half (every value the code forms is *)
(* an integer multiple of 0.5 and is exact in an f64 for i32 weights), so  *)
(* base_score = -0.5 * total is the integer -total and a weight w adds     *)
(* 2 * w; the sign test score > 0.0 is unchanged by the scaling.           *)
(***************************************************************************)
EXTENDS Integers, Sequences, FiniteSets, TLC

VARIABLES model, base_score, call, sentence, boundaries, chunks, panicked,
          dom, prev_dom, log, runs, separator, class_name, html_panicked,
          paragraph, json_input, json_result

parserVars == <<model, base_score, call, sentence, boundaries, chunks, panicked>>

htmlVars ==
  <<dom, prev_dom, log, runs, separator, class_name, html_panicked, paragraph>>

jsonVars == <<json_input, json_result>>

vars == <<parserVars, htmlVars, jsonVars>>

-----------------------------------------------------------------------------
(* Bounds of the exploration.                                              *)

MaxLen == 4

MaxChildren == 3

MaxRuns == 2

(* Content units of a paragraph handed to apply_to_paragraph directly.     *)
MaxUnits == 2

(* Chars of a class name or of an existing class or style attribute.       *)
MaxAttr == 3

Alphabet == {"a", "b"}

-----------------------------------------------------------------------------
(* Generic helpers.                                                        *)

Min(a, b) == IF a < b THEN a ELSE b

Max(a, b) == IF a > b THEN a ELSE b

RECURSIVE SeqsUpTo(_, _)
SeqsUpTo(S, n) ==
  IF n = 0 THEN {<<>>}
  ELSE LET shorter == SeqsUpTo(S, n - 1)
       IN  shorter \cup {Append(s, c) : s \in {t \in shorter : Len(t) = n - 1}, c \in S}

RECURSIVE Concat(_)
Concat(ss) == IF ss = <<>> THEN <<>> ELSE Head(ss) \o Concat(Tail(ss))

Range(s) == {s[k] : k \in DOMAIN s}

(* The end offsets of all chunks but the last.                             *)
ChunkEnds(cs) ==
  {Len(Concat(SubSeq(cs, 1, k))) : k \in 1..(Len(cs) - 1)}

RECURSIVE SumOver(_, _)
SumOver(f, S) ==
  IF S = {} THEN 0
  ELSE LET k == CHOOSE x \in S : TRUE IN f[k] + SumOver(f, S \ {k})

-----------------------------------------------------------------------------
(* model.rs: the 13 feature keys.                                          *)

FeatureKey ==
  {"UW1", "UW2", "UW3", "UW4", "UW5", "UW6",
   "BW1", "BW2", "BW3", "TW1", "TW2", "TW3", "TW4"}

(* Variant: an unknown name parses as UW1.                                 *)
from_str_lenient(value) ==
  IF value \in FeatureKey THEN [ok |-> TRUE, key |-> value]
  ELSE [ok |-> TRUE, key |-> "UW1"]

(* FeatureKey::from_str: the match on the 13 names, Err(()) otherwise.     *)
from_str(value) ==
  CASE value = "UW1" -> [ok |-> TRUE, key |-> "UW1"]
    [] value = "UW2" -> [ok |-> TRUE, key |-> "UW2"]
    [] value = "UW3" -> [ok |-> TRUE, key |-> "UW3"]
    [] value = "UW4" -> [ok |-> TRUE, key |-> "UW4"]
    [] value = "UW5" -> [ok |-> TRUE, key |-> "UW5"]
    [] value = "UW6" -> [ok |-> TRUE, key |-> "UW6"]
    [] value = "BW1" -> [ok |-> TRUE, key |-> "BW1"]
    [] value = "BW2" -> [ok |-> TRUE, key |-> "BW2"]
    [] value = "BW3" -> [ok |-> TRUE, key |-> "BW3"]
    [] value = "TW1" -> [ok |-> TRUE, key |-> "TW1"]
    [] value = "TW2" -> [ok |-> TRUE, key |-> "TW2"]
    [] value = "TW3" -> [ok |-> TRUE, key |-> "TW3"]
    [] value = "TW4" -> [ok |-> TRUE, key |-> "TW4"]
    [] OTHER -> [ok |-> FALSE, key |-> ""]

(* A JSON text is held as what a JSON reader sees in it: no JSON value at  *)
(* all, or an object whose members are each an object of string -> i32     *)
(* (held as a function) or some other JSON value.                          *)
NoDocument == [wellformed |-> FALSE, members |-> <<>>]

NoResult == [kind |-> "None"]

NotAMap == [map |-> FALSE, entries |-> <<>>]

AMap(f) == [map |-> TRUE, entries |-> f]

(* serde_json::from_str::<HashMap<String, HashMap<String, i32>>>: Ok only  *)
(* for an object all of whose members are maps of string -> i32.           *)
deserialize(doc) ==
  IF doc.wellformed /\ \A k \in DOMAIN doc.members : doc.members[k].map
    THEN [ok |-> TRUE, raw |-> [k \in DOMAIN doc.members |-> doc.members[k].entries]]
    ELSE [ok |-> FALSE, raw |-> <<>>]

(* The model the loop builds when every key parses.                        *)
InsertAll(raw) ==
  [t \in {from_str(k).key : k \in DOMAIN raw} |->
     raw[CHOOSE k \in DOMAIN raw : from_str(k).key = t]]

(* parse_model_json: the results it can return.  The loop visits the keys  *)
(* of a HashMap in no fixed order and returns at the first key that        *)
(* from_str rejects, so any rejected key can be the one reported.          *)
parse_model_json(doc) ==
  LET r == deserialize(doc)
      rejected == {k \in DOMAIN r.raw : ~from_str(k).ok}
  IN  IF ~r.ok THEN {[kind |-> "Err", error |-> "Json"]}
      ELSE IF rejected # {}
        THEN {[kind |-> "Err", error |-> "UnknownFeature", key |-> k] : k \in rejected}
      ELSE {[kind |-> "Ok", model |-> InsertAll(r.raw)]}

-----------------------------------------------------------------------------
(* parser.rs                                                               *)

(* usize::saturating_sub *)
saturating_sub(a, b) == IF a >= b THEN a - b ELSE 0

(* Sum of every weight of every inner map (Parser::new, lines 18-22).      *)
RECURSIVE TotalWeight(_, _)
TotalWeight(m, tags) ==
  IF tags = {} THEN 0
  ELSE LET t == CHOOSE x \in tags : TRUE
       IN  SumOver(m[t], DOMAIN m[t]) + TotalWeight(m, tags \ {t})

(* Variant: base_score = -1.0 * total.                                     *)
Parser_new_full_total(m) ==
  [model |-> m, base_score |-> 0 - 2 * TotalWeight(m, DOMAIN m)]

(* Parser::new: base_score = -0.5 * total, in half units.                  *)
Parser_new(m) == [model |-> m, base_score |-> 0 - TotalWeight(m, DOMAIN m)]

(* The parser held in the state.                                           *)
TheParser == [model |-> model, base_score |-> base_score]

(* Parser::weight: 0 when the group or the key is absent; in half units.   *)
weight(m, group, key) ==
  IF group \in DOMAIN m /\ key \in DOMAIN m[group] THEN 2 * m[group][key] ELSE 0

(* A slice chars[start..end] is in range iff start <= end <= len.          *)
SliceOk(len, start, end) == start <= end /\ end <= len

(* substring(): the empty string when start >= end, else chars[start..end] *)
substring(chars, start, end) ==
  IF start >= end THEN <<>> ELSE SubSeq(chars, start + 1, end)

(* substring() panics iff it reaches the slice with end > len.             *)
substring_panics(chars, start, end) ==
  start < end /\ ~SliceOk(Len(chars), start, end)

(* Variant: the UW4 window is the char after the next one.                 *)
Windows_uw4_shifted(len, i) ==
  << [group |-> "UW1", start |-> saturating_sub(i, 3), end |-> saturating_sub(i, 2)],
     [group |-> "UW2", start |-> saturating_sub(i, 2), end |-> saturating_sub(i, 1)],
     [group |-> "UW3", start |-> saturating_sub(i, 1), end |-> i],
     [group |-> "UW4", start |-> Min(i + 1, len), end |-> Min(i + 2, len)],
     [group |-> "UW5", start |-> Min(i + 1, len), end |-> Min(i + 2, len)],
     [group |-> "UW6", start |-> Min(i + 2, len), end |-> Min(i + 3, len)],
     [group |-> "BW1", start |-> saturating_sub(i, 2), end |-> i],
     [group |-> "BW2", start |-> saturating_sub(i, 1), end |-> Min(i + 1, len)],
     [group |-> "BW3", start |-> i, end |-> Min(i + 2, len)],
     [group |-> "TW1", start |-> saturating_sub(i, 3), end |-> i],
     [group |-> "TW2", start |-> saturating_sub(i, 2), end |-> Min(i + 1, len)],
     [group |-> "TW3", start |-> saturating_sub(i, 1), end |-> Min(i + 2, len)],
     [group |-> "TW4", start |-> i, end |-> Min(i + 3, len)] >>

(* The 13 (group, start, end) triples of one loop iteration, lines 56-89.  *)
Windows(len, i) ==
  << [group |-> "UW1", start |-> saturating_sub(i, 3), end |-> saturating_sub(i, 2)],
     [group |-> "UW2", start |-> saturating_sub(i, 2), end |-> saturating_sub(i, 1)],
     [group |-> "UW3", start |-> saturating_sub(i, 1), end |-> i],
     [group |-> "UW4", start |-> i, end |-> Min(i + 1, len)],
     [group |-> "UW5", start |-> Min(i + 1, len), end |-> Min(i + 2, len)],
     [group |-> "UW6", start |-> Min(i + 2, len), end |-> Min(i + 3, len)],
     [group |-> "BW1", start |-> saturating_sub(i, 2), end |-> i],
     [group |-> "BW2", start |-> saturating_sub(i, 1), end |-> Min(i + 1, len)],
     [group |-> "BW3", start |-> i, end |-> Min(i + 2, len)],
     [group |-> "TW1", start |-> saturating_sub(i, 3), end |-> i],
     [group |-> "TW2", start |-> saturating_sub(i, 2), end |-> Min(i + 1, len)],
     [group |-> "TW3", start |-> saturating_sub(i, 1), end |-> Min(i + 2, len)],
     [group |-> "TW4", start |-> i, end |-> Min(i + 3, len)] >>

RECURSIVE SumWindows(_, _, _, _)
SumWindows(m, chars, ws, k) ==
  IF k > Len(ws) THEN 0
  ELSE weight(m, ws[k].group, substring(chars, ws[k].start, ws[k].end))
       + SumWindows(m, chars, ws, k + 1)

(* The score of offset i after line 89, in half units.                     *)
Score(p, chars, i) ==
  p.base_score + SumWindows(p.model, chars, Windows(Len(chars), i), 1)

(* The loop "for i in 1..len" with "if score > 0.0 { result.push(i) }".    *)
RECURSIVE ScoreLoop(_, _, _, _)
ScoreLoop(p, chars, i, result) ==
  IF i >= Len(chars) THEN result
  ELSE ScoreLoop(p, chars, i + 1,
                 IF Score(p, chars, i) > 0 THEN Append(result, i) ELSE result)

(* Variant: the loop runs "for i in 0..len".                               *)
parse_boundaries_from_zero(p, chars) ==
  IF Len(chars) = 0 THEN <<>> ELSE ScoreLoop(p, chars, 0, <<>>)

(* Parser::parse_boundaries_from_chars                                     *)
parse_boundaries_from_chars(p, chars) ==
  IF Len(chars) = 0 THEN <<>> ELSE ScoreLoop(p, chars, 1, <<>>)

(* Some substring() call of the loop slices out of range.                  *)
parse_boundaries_panics(chars) ==
  \E i \in 1..(Len(chars) - 1) :
    \E k \in 1..13 :
      LET w == Windows(Len(chars), i)[k]
      IN  substring_panics(chars, w.start, w.end)

(* split_by_boundaries: the loop over the boundaries, then the remainder.  *)
RECURSIVE SplitLoop(_, _, _, _)
SplitLoop(chars, bs, start, result) ==
  IF bs = <<>> THEN Append(result, SubSeq(chars, start + 1, Len(chars)))
  ELSE SplitLoop(chars, Tail(bs), Head(bs),
                 Append(result, SubSeq(chars, start + 1, Head(bs))))

(* Variant: the loop never advances start.                                 *)
RECURSIVE SplitLoopStuck(_, _, _)
SplitLoopStuck(chars, bs, result) ==
  IF bs = <<>> THEN Append(result, SubSeq(chars, 1, Len(chars)))
  ELSE SplitLoopStuck(chars, Tail(bs), Append(result, SubSeq(chars, 1, Head(bs))))

split_by_boundaries_stuck(chars, bs) == SplitLoopStuck(chars, bs, <<>>)

split_by_boundaries(chars, bs) == SplitLoop(chars, bs, 0, <<>>)

(* chars[start..boundary] or chars[start..] is out of range.               *)
RECURSIVE SplitPanics(_, _, _)
SplitPanics(len, bs, start) ==
  IF bs = <<>> THEN start > len
  ELSE ~SliceOk(len, start, Head(bs)) \/ SplitPanics(len, Tail(bs), Head(bs))

split_by_boundaries_panics(chars, bs) == SplitPanics(Len(chars), bs, 0)

(* Variant: no early return for the empty sentence.                        *)
Parser_parse_no_empty_check(p, s) ==
  split_by_boundaries(s, parse_boundaries_from_chars(p, s))

(* Parser::parse                                                           *)
Parser_parse(p, s) ==
  IF s = <<>> THEN <<>>
  ELSE split_by_boundaries(s, parse_boundaries_from_chars(p, s))

Parser_parse_panics(p, s) ==
  /\ s # <<>>
  /\ \/ parse_boundaries_panics(s)
     \/ split_by_boundaries_panics(s, parse_boundaries_from_chars(p, s))

-----------------------------------------------------------------------------
(* The inputs explored: sentences and weight models.                       *)

(* The sentence and the weight of tests/parser.rs.                         *)
TestSentence == <<"a", "b", "c", "d", "e", "a", "b", "c", "d">>

TestWeight == 10000

Sentences == SeqsUpTo(Alphabet, MaxLen) \cup {TestSentence}

(* Keys of an inner map: any string up to the widest window (3 chars),     *)
(* the empty string included.                                              *)
KeyStrings == SeqsUpTo(Alphabet, 3)

Weights == {0 - 1, 1}

OneEntry(t, k, w) == [x \in {t} |-> [y \in {k} |-> w]]

SingleModels == {OneEntry(t, k, w) : t \in FeatureKey, k \in KeyStrings, w \in Weights}

(* Second entries are weights on the char right after the offset, so that  *)
(* the total holds a weight that an offset matches or not.                 *)
SecondEntries == {<<"UW4", <<"a">>, w>> : w \in {0 - 1, 2}}

(* HashMap::insert of one more (tag, key, weight).                         *)
AddEntry(m, e) ==
  LET t == e[1]
      k == e[2]
      inner == IF t \in DOMAIN m THEN m[t] ELSE <<>>
      inner2 == [y \in (DOMAIN inner) \cup {k} |-> IF y = k THEN e[3] ELSE inner[y]]
  IN  [x \in (DOMAIN m) \cup {t} |-> IF x = t THEN inner2 ELSE m[x]]

EmptyModel == <<>>

Models ==
  {EmptyModel} \cup SingleModels
    \cup {OneEntry("UW4", <<c>>, TestWeight) : c \in Alphabet}
    \cup {AddEntry(OneEntry(t, k, 1), e) :
            t \in FeatureKey, k \in KeyStrings, e \in SecondEntries}

-----------------------------------------------------------------------------
(* html_processor.rs: the tree.                                            *)
(*                                                                         *)
(* A tree is a sequence of nodes; a node's id is its index.  An element    *)
(* holds its local name (lower case, as html5ever gives it), the ids of    *)
(* its children in order and its class and style attributes; a text node   *)
(* holds its text.                                                         *)

ZWSP == "ZWSP"

ZWSP_CODEPOINT == 8203

(* char as u32, for the chars of the texts explored.                       *)
CodePoint(ch) ==
  CASE ch = ZWSP -> 8203
    [] ch = " " -> 32
    [] ch = "a" -> 97
    [] ch = "b" -> 98
    [] OTHER -> 63

(* char::is_whitespace, which str::trim uses; U+200B is not White_Space.   *)
IsWhitespace(ch) == CodePoint(ch) = 32

PARENT_STYLE == <<"word-break: keep-all;", " ", "overflow-wrap: anywhere;">>

None == [some |-> FALSE]

Some(v) == [some |-> TRUE, value |-> v]

(* Node 1 stands for the body that holds the element handed to             *)
(* apply_to_element (apply_to_html_string, lines 198-224), node 2 is that  *)
(* element.                                                                *)
BodyId == 1

RootId == 2

TextNode(t) ==
  [kind |-> "text", name |-> "", text |-> t, kids |-> <<>>,
   class |-> None, style |-> None]

Element(n, ks) ==
  [kind |-> "element", name |-> n, text |-> <<>>, kids |-> ks,
   class |-> None, style |-> None]

(* str::to_uppercase on the local names used.                              *)
to_uppercase(n) ==
  CASE n = "p" -> "P"
    [] n = "div" -> "DIV"
    [] n = "span" -> "SPAN"
    [] n = "strong" -> "STRONG"
    [] n = "nobr" -> "NOBR"
    [] n = "wbr" -> "WBR"
    [] n = "br" -> "BR"
    [] n = "pre" -> "PRE"
    [] OTHER -> n

dom_actions ==
  [AREA |-> "Skip", BASE |-> "Skip", BASEFONT |-> "Skip", DATALIST |-> "Skip",
   HEAD |-> "Skip", LINK |-> "Skip", META |-> "Skip", NOEMBED |-> "Skip",
   NOFRAMES |-> "Skip", PARAM |-> "Skip", RP |-> "Skip", SCRIPT |-> "Skip",
   STYLE |-> "Skip", TEMPLATE |-> "Skip", TITLE |-> "Skip", NOSCRIPT |-> "Skip",
   HR |-> "Break", LISTING |-> "Skip", PLAINTEXT |-> "Skip", PRE |-> "Skip",
   XMP |-> "Skip", BR |-> "Break", RT |-> "Skip", WBR |-> "BreakOpportunity",
   INPUT |-> "Skip", SELECT |-> "Skip", BUTTON |-> "Skip", TEXTAREA |-> "Skip",
   ABBR |-> "Skip", CODE |-> "Skip", IFRAME |-> "Skip", TIME |-> "Skip",
   VAR |-> "Skip", NOBR |-> "NoBreak", SPAN |-> "Inline"]

default_block_elements ==
  {"HTML", "BODY", "ADDRESS", "BLOCKQUOTE", "CENTER", "DIALOG", "DIV", "FIGURE",
   "FIGCAPTION", "FOOTER", "FORM", "HEADER", "LEGEND", "LISTING", "MAIN", "P",
   "ARTICLE", "ASIDE", "H1", "H2", "H3", "H4", "H5", "H6", "HGROUP", "NAV",
   "SECTION", "DIR", "DD", "DL", "DT", "MENU", "OL", "UL", "LI", "TABLE",
   "CAPTION", "COL", "TR", "TD", "TH", "FIELDSET", "DETAILS", "SUMMARY",
   "MARQUEE"}

action_for_element(d, node) ==
  IF d[node].kind # "element" THEN "Inline"
  ELSE LET name == to_uppercase(d[node].name)
       IN  IF name \in DOMAIN dom_actions THEN dom_actions[name]
           ELSE IF name \in default_block_elements THEN "Block"
           ELSE "Inline"

-----------------------------------------------------------------------------
(* html_processor.rs: NodeOrText and Paragraph.                            *)

from_node(node) ==
  [node |-> [kind |-> "Node", ref |-> node, text |-> <<>>],
   chunks |-> <<>>, has_break_opportunity_after |-> FALSE]

from_string(text) ==
  [node |-> [kind |-> "Text", ref |-> 0, text |-> text],
   chunks |-> <<>>, has_break_opportunity_after |-> FALSE]

can_split(u) == u.node.kind = "Node"

(* NodeOrText::text: the literal, or the live text of the node; None when  *)
(* the node is no text node.                                               *)
unit_text(d, u) ==
  IF u.node.kind = "Text" THEN Some(u.node.text)
  ELSE IF d[u.node.ref].kind = "text" THEN Some(d[u.node.ref].text)
  ELSE None

unit_length(d, u) ==
  LET t == unit_text(d, u) IN IF t.some THEN Len(t.value) ELSE 0

Paragraph_new(element) == [element |-> element, nodes |-> <<>>]

RECURSIVE Paragraph_text_from(_, _, _)
Paragraph_text_from(d, nodes, k) ==
  IF k > Len(nodes) THEN <<>>
  ELSE LET t == unit_text(d, nodes[k])
       IN  (IF t.some THEN t.value ELSE <<>>) \o Paragraph_text_from(d, nodes, k + 1)

Paragraph_text(d, para) == Paragraph_text_from(d, para.nodes, 1)

set_has_break_opportunity_after(para) ==
  IF para.nodes = <<>> THEN para
  ELSE [para EXCEPT !.nodes[Len(para.nodes)].has_break_opportunity_after = TRUE]

-----------------------------------------------------------------------------
(* html_processor.rs: HTMLProcessor::collect_blocks.  The parent paragraph *)
(* is passed by value (Option<Paragraph>, each child receiving             *)
(* block.clone()), so what a callee pushes onto or marks in its parent     *)
(* paragraph stays in the callee's copy; only `output` is shared.          *)

RECURSIVE collect_blocks(_, _, _, _)
RECURSIVE collect_children(_, _, _, _, _)

(* Variant: a text child of a NoBreak element is taken as a live node.     *)
collect_children_all_live(d, action, kids, block, output) ==
  IF kids = <<>> THEN [block |-> block, output |-> output]
  ELSE LET child == Head(kids)
       IN  IF d[child].kind = "element"
             THEN collect_children(d, action, Tail(kids), block,
                                   collect_blocks(d, child, Some(block), output))
           ELSE IF d[child].kind = "text"
             THEN collect_children(d, action, Tail(kids),
                    [block EXCEPT !.nodes = Append(@, from_node(child))], output)
           ELSE collect_children(d, action, Tail(kids), block, output)

(* The loop over element.children(); yields the block and the output.      *)
collect_children(d, action, kids, block, output) ==
  IF kids = <<>> THEN [block |-> block, output |-> output]
  ELSE LET child == Head(kids)
       IN  IF d[child].kind = "element"
             THEN collect_children(d, action, Tail(kids), block,
                                   collect_blocks(d, child, Some(block), output))
           ELSE IF d[child].kind = "text"
             THEN collect_children(d, action, Tail(kids),
                    [block EXCEPT !.nodes =
                       Append(@, IF action = "NoBreak"
                                   THEN from_string(d[child].text)
                                   ELSE from_node(child))],
                    output)
           ELSE collect_children(d, action, Tail(kids), block, output)

(* Variant: a Skip element flushes the paragraph as a Break element does.  *)
collect_blocks_skip_flushes(d, element, parent, output) ==
  LET action == action_for_element(d, element)
  IN  IF action = "Skip" \/ action = "Break"
        THEN IF parent.some /\ parent.value.nodes # <<>>
               THEN Append(output, set_has_break_opportunity_after(parent.value))
               ELSE output
      ELSE IF action = "BreakOpportunity" THEN output
      ELSE LET is_new_block == ~parent.some \/ action = "Block"
               block == IF is_new_block THEN Paragraph_new(element) ELSE parent.value
               r == collect_children(d, action, d[element].kids, block, output)
           IN  IF is_new_block /\ r.block.nodes # <<>>
                 THEN Append(r.output, r.block)
                 ELSE r.output

collect_blocks(d, element, parent, output) ==
  LET action == action_for_element(d, element)
  IN  IF action = "Skip" THEN output
      ELSE IF action = "Break"
        THEN IF parent.some /\ parent.value.nodes # <<>>
               THEN Append(output, set_has_break_opportunity_after(parent.value))
               ELSE output
      ELSE IF action = "BreakOpportunity"
        THEN (* the mark is set on this call's own copy of the paragraph *)
             LET marked == IF parent.some
                             THEN set_has_break_opportunity_after(parent.value)
                             ELSE parent
             IN  output
      ELSE LET is_new_block == ~parent.some \/ action = "Block"
               block == IF is_new_block THEN Paragraph_new(element) ELSE parent.value
               r == collect_children(d, action, d[element].kids, block, output)
           IN  IF is_new_block /\ r.block.nodes # <<>>
                 THEN Append(r.output, r.block)
                 ELSE r.output

-----------------------------------------------------------------------------
(* html_processor.rs: forced opportunities.                                *)

(* Variant: the offset of the zero-width space itself, len + idx.          *)
RECURSIVE ZwspOffsets_at_char(_, _, _)
ZwspOffsets_at_char(text, len, k) ==
  IF k > Len(text) THEN <<>>
  ELSE (IF CodePoint(text[k]) = ZWSP_CODEPOINT THEN <<len + (k - 1)>> ELSE <<>>)
         \o ZwspOffsets_at_char(text, len, k + 1)

(* The offsets len + idx + 1 of the zero-width spaces of one text.         *)
RECURSIVE ZwspOffsets(_, _, _)
ZwspOffsets(text, len, k) ==
  IF k > Len(text) THEN <<>>
  ELSE (IF CodePoint(text[k]) = ZWSP_CODEPOINT THEN <<len + (k - 1) + 1>> ELSE <<>>)
         \o ZwspOffsets(text, len, k + 1)

RECURSIVE ForcedFrom(_, _, _, _)
ForcedFrom(d, nodes, k, len) ==
  IF k > Len(nodes) THEN <<>>
  ELSE LET u == nodes[k]
           t == unit_text(d, u)
           zw == IF can_split(u) /\ t.some THEN ZwspOffsets(t.value, len, 1) ELSE <<>>
           len2 == len + unit_length(d, u)
           after == IF u.has_break_opportunity_after THEN <<len2>> ELSE <<>>
       IN  zw \o after \o ForcedFrom(d, nodes, k + 1, len2)

get_forced_opportunities(d, para) == ForcedFrom(d, para.nodes, 1, 0)

NotIn(S, bs) == SelectSeq(bs, LAMBDA b : b \notin S)

exclude_forced_opportunities(d, para, bs) ==
  LET forced == get_forced_opportunities(d, para)
  IN  IF forced = <<>> THEN bs ELSE NotIn(Range(forced), bs)

-----------------------------------------------------------------------------
(* html_processor.rs: HTMLProcessor::split_nodes.                          *)
(* boundary_index is 0-based; boundaries[boundary_index] is bs[index + 1]. *)

(* input.chars().skip(start).take(end - start), for start <= end.          *)
slice_chars(input, start, end) == SubSeq(input, start + 1, Min(end, Len(input)))

push_chunk(u, value) == [u EXCEPT !.chunks = Append(@, value)]

add_boundary_at_end(d, u) ==
  LET t == unit_text(d, u)
      first == IF u.chunks = <<>> /\ t.some THEN <<t.value>> ELSE <<>>
  IN  [u EXCEPT !.chunks = (@ \o first) \o << <<>> >>]

(* "while boundary < node_end { boundary_index += 1; boundary = ... }" of  *)
(* the non-splittable branch; panic is the index running off the list.     *)
RECURSIVE SkipBoundaries(_, _, _)
SkipBoundaries(bs, index, node_end) ==
  IF bs[index + 1] < node_end
    THEN IF index + 1 >= Len(bs)
           THEN [index |-> index, panic |-> TRUE]
           ELSE SkipBoundaries(bs, index + 1, node_end)
    ELSE [index |-> index, panic |-> FALSE]

(* Variant: the loop runs "while boundary <= node_end".                    *)
RECURSIVE ChunkLoop_through_end(_, _, _, _, _, _, _)
ChunkLoop_through_end(bs, index, node_start, node_end, node_text, chunk_start, u) ==
  IF bs[index + 1] <= node_end
    THEN LET boundary_in_node == bs[index + 1] - node_start
         IN  IF boundary_in_node < chunk_start \/ index + 1 >= Len(bs)
               THEN [index |-> index, unit |-> u, panic |-> TRUE]
               ELSE ChunkLoop_through_end(bs, index + 1, node_start, node_end,
                                          node_text, boundary_in_node,
                                          push_chunk(u, slice_chars(node_text, chunk_start,
                                                                    boundary_in_node)))
    ELSE [index |-> index,
          unit |-> push_chunk(u, slice_chars(node_text, chunk_start, Len(node_text))),
          panic |-> FALSE]

(* Variant: chunk_start is not advanced, every chunk is cut from 0.        *)
RECURSIVE ChunkLoop_from_zero(_, _, _, _, _, _, _)
ChunkLoop_from_zero(bs, index, node_start, node_end, node_text, chunk_start, u) ==
  IF bs[index + 1] < node_end
    THEN LET boundary_in_node == bs[index + 1] - node_start
         IN  IF index + 1 >= Len(bs)
               THEN [index |-> index, unit |-> u, panic |-> TRUE]
               ELSE ChunkLoop_from_zero(bs, index + 1, node_start, node_end,
                                        node_text, chunk_start,
                                        push_chunk(u, slice_chars(node_text, chunk_start,
                                                                  boundary_in_node)))
    ELSE [index |-> index,
          unit |-> push_chunk(u, slice_chars(node_text, chunk_start, Len(node_text))),
          panic |-> FALSE]

(* The chunk loop of a splittable node that holds a boundary.              *)
RECURSIVE ChunkLoop(_, _, _, _, _, _, _)
ChunkLoop(bs, index, node_start, node_end, node_text, chunk_start, u) ==
  IF bs[index + 1] < node_end
    THEN LET boundary_in_node == bs[index + 1] - node_start
         IN  IF boundary_in_node < chunk_start \/ index + 1 >= Len(bs)
               THEN [index |-> index, unit |-> u, panic |-> TRUE]
               ELSE ChunkLoop(bs, index + 1, node_start, node_end, node_text,
                              boundary_in_node,
                              push_chunk(u, slice_chars(node_text, chunk_start,
                                                        boundary_in_node)))
    ELSE [index |-> index,
          unit |-> push_chunk(u, slice_chars(node_text, chunk_start, Len(node_text))),
          panic |-> FALSE]

(* The first loop of split_nodes, from node k on.                          *)
RECURSIVE SplitNodesLoop(_, _, _, _, _, _, _)
SplitNodesLoop(d, nodes, bs, k, index, node_start, last_node_can_split) ==
  IF k > Len(nodes) THEN [nodes |-> nodes, index |-> index, panic |-> FALSE]
  ELSE
    LET node == nodes[k]
        t == unit_text(d, node)
    IN  IF ~t.some
          THEN SplitNodesLoop(d, nodes, bs, k + 1, index, node_start,
                              last_node_can_split)
        ELSE
          LET node_text == t.value
              node_len == Len(node_text)
              node_end == node_start + node_len
              boundary == bs[index + 1]
          IN  IF ~can_split(node)
                THEN LET marked == IF last_node_can_split /\ boundary = node_start
                                     THEN add_boundary_at_end(d, node)
                                     ELSE node
                         skip == SkipBoundaries(bs, index, node_end)
                     IN  IF skip.panic
                           THEN [nodes |-> nodes, index |-> skip.index, panic |-> TRUE]
                           ELSE SplitNodesLoop(d, [nodes EXCEPT ![k] = marked], bs,
                                               k + 1, skip.index, node_end, FALSE)
              ELSE IF boundary >= node_end
                THEN SplitNodesLoop(d, nodes, bs, k + 1, index, node_end, TRUE)
              ELSE LET r == ChunkLoop(bs, index, node_start, node_end, node_text,
                                      0, node)
                   IN  IF r.panic
                         THEN [nodes |-> nodes, index |-> r.index, panic |-> TRUE]
                         ELSE SplitNodesLoop(d, [nodes EXCEPT ![k] = r.unit], bs,
                                             k + 1, r.index, node_end, TRUE)

(* chunks.join(sep) *)
RECURSIVE Join(_, _)
Join(cs, sep) ==
  IF cs = <<>> THEN <<>>
  ELSE IF Len(cs) = 1 THEN cs[1]
  ELSE cs[1] \o sep \o Join(Tail(cs), sep)

ParentOf(d, n) ==
  IF \E q \in DOMAIN d : n \in Range(d[q].kids)
    THEN CHOOSE q \in DOMAIN d : n \in Range(d[q].kids)
    ELSE 0

IndexIn(seq, x) == CHOOSE k \in DOMAIN seq : seq[k] = x

InsertAfter(seq, x, new) ==
  LET k == IndexIn(seq, x)
  IN  SubSeq(seq, 1, k) \o new \o SubSeq(seq, k + 1, Len(seq))

Remove(seq, x) == SelectSeq(seq, LAMBDA y : y # x)

(* The nodes built in node-sep mode: per chunk a text node when the  *)
(* chunk is not empty, then a clone of the sep; the last is popped.  *)
RECURSIVE NewNodes(_, _)
NewNodes(cs, sep_node) ==
  IF cs = <<>> THEN <<>>
  ELSE (IF Head(cs) # <<>> THEN <<TextNode(Head(cs))>> ELSE <<>>)
         \o <<sep_node>> \o NewNodes(Tail(cs), sep_node)

Pop(seq) == IF seq = <<>> THEN seq ELSE SubSeq(seq, 1, Len(seq) - 1)

(* NodeOrText::split.  In node mode every new node is inserted with        *)
(* parent.insert_after(new_node), in reverse order, i.e. as the next       *)
(* sibling of the text node's parent, and the text node is detached.  The  *)
(* separator elements explored have no children, so a clone is the         *)
(* element itself.                                                         *)
split(d, u, sep) ==
  IF Len(u.chunks) <= 1 THEN d
  ELSE IF u.node.kind = "Text" THEN d
  ELSE IF sep.kind = "Text"
    THEN IF d[u.node.ref].kind = "text"
           THEN [d EXCEPT ![u.node.ref].text = Join(u.chunks, sep.text)]
           ELSE d
  ELSE LET nodes == Pop(NewNodes(u.chunks, sep.node))
           parent == ParentOf(d, u.node.ref)
           ids == [k \in 1..Len(nodes) |-> Len(d) + k]
           grand == IF parent = 0 THEN 0 ELSE ParentOf(d, parent)
           d2 == d \o nodes
       IN  IF parent = 0 THEN d
           ELSE [q \in DOMAIN d2 |->
                   IF q = grand /\ q = parent THEN d2[q]
                   ELSE IF q = grand
                     THEN [d2[q] EXCEPT !.kids = InsertAfter(@, parent, ids)]
                   ELSE IF q = parent
                     THEN [d2[q] EXCEPT !.kids = Remove(@, u.node.ref)]
                   ELSE d2[q]]

(* The second loop of split_nodes.                                         *)
RECURSIVE SplitAll(_, _, _, _)
SplitAll(d, nodes, k, sep) ==
  IF k > Len(nodes) THEN d
  ELSE SplitAll(split(d, nodes[k], sep), nodes, k + 1, sep)

(* split_nodes: the tree after both loops and the value boundary_index     *)
(* ended with; panic when an index ran off.                                *)
split_nodes(d, nodes, bs, sep) ==
  LET r == SplitNodesLoop(d, nodes, bs, 1, 0, 0, FALSE)
  IN  IF r.panic
        THEN [dom |-> d, nodes |-> nodes, index |-> r.index, panic |-> TRUE]
        ELSE [dom |-> SplitAll(d, r.nodes, 1, sep), nodes |-> r.nodes,
              index |-> r.index, panic |-> FALSE]

-----------------------------------------------------------------------------
(* html_processor.rs: HTMLProcessor::apply_block_style.                    *)

RECURSIVE TrimStart(_)
TrimStart(t) == IF t # <<>> /\ IsWhitespace(Head(t)) THEN TrimStart(Tail(t)) ELSE t

RECURSIVE TrimEnd(_)
TrimEnd(t) ==
  IF t # <<>> /\ IsWhitespace(t[Len(t)]) THEN TrimEnd(SubSeq(t, 1, Len(t) - 1)) ELSE t

trim(t) == TrimEnd(TrimStart(t))

(* str::split_whitespace *)
RECURSIVE SplitWs(_, _, _)
SplitWs(t, cur, acc) ==
  IF t = <<>> THEN (IF cur = <<>> THEN acc ELSE Append(acc, cur))
  ELSE IF IsWhitespace(Head(t))
    THEN SplitWs(Tail(t), <<>>, IF cur = <<>> THEN acc ELSE Append(acc, cur))
  ELSE SplitWs(Tail(t), Append(cur, Head(t)), acc)

split_whitespace(t) == SplitWs(t, <<>>, <<>>)

(* str::contains *)
contains(t, pat) ==
  \E k \in 0..(Len(t) - Len(pat)) : SubSeq(t, k + 1, k + Len(pat)) = pat

unwrap_or_empty(o) == IF o.some THEN o.value ELSE <<>>

apply_block_style(d, element, cls) ==
  IF d[element].kind # "element" THEN d
  ELSE IF cls.some
    THEN LET existing == unwrap_or_empty(d[element].class)
             new_value ==
               IF existing = <<>> THEN cls.value
               ELSE IF cls.value \in Range(split_whitespace(existing)) THEN existing
               ELSE existing \o <<" ">> \o cls.value
         IN  [d EXCEPT ![element].class = Some(new_value)]
  ELSE LET existing == trim(unwrap_or_empty(d[element].style))
           new_value ==
             IF existing = <<>> THEN PARENT_STYLE
             ELSE IF contains(existing, PARENT_STYLE) THEN existing
             ELSE existing \o <<" ">> \o PARENT_STYLE
       IN  [d EXCEPT ![element].style = Some(new_value)]

-----------------------------------------------------------------------------
(* html_processor.rs: apply_to_paragraph and apply_to_element.             *)

any_can_split(nodes) == \E k \in DOMAIN nodes : can_split(nodes[k])

(* Variant: the anchor is annotated before the early returns.              *)
ParagraphRun_styles_first(p, d, para, sep, cls) ==
  LET text == Paragraph_text(d, para)
      raw == IF any_can_split(para.nodes) /\ trim(text) # <<>>
               THEN parse_boundaries_from_chars(p, text) ELSE <<>>
      forced == get_forced_opportunities(d, para)
      adjusted == IF raw = <<>> THEN <<>> ELSE exclude_forced_opportunities(d, para, raw)
      bs == Append(adjusted, Len(text) + 1)
      r == IF adjusted = <<>> THEN [dom |-> d, nodes |-> para.nodes, panic |-> FALSE]
           ELSE split_nodes(d, para.nodes, bs, sep)
  IN  [panic |-> r.panic,
       dom |-> apply_block_style(r.dom, para.element, cls),
       trace |->
         [element |-> para.element, nodes |-> r.nodes, before |-> para.nodes,
          ends |-> [k \in DOMAIN para.nodes |->
                      Len(Paragraph_text_from(d, SubSeq(para.nodes, 1, k), 1))],
          text |-> text, raw |-> raw, forced |-> forced, adjusted |-> adjusted]]

(* The steps of apply_to_paragraph on the tree d, with what it computed:   *)
(* the units before and after split_nodes, the end offset of each unit in  *)
(* the flattened text, the raw, forced and surviving boundaries.           *)
ParagraphRun(p, d, para, sep, cls) ==
  LET text == Paragraph_text(d, para)
      raw == IF any_can_split(para.nodes) /\ trim(text) # <<>>
               THEN parse_boundaries_from_chars(p, text) ELSE <<>>
      forced == get_forced_opportunities(d, para)
      adjusted == IF raw = <<>> THEN <<>> ELSE exclude_forced_opportunities(d, para, raw)
      bs == Append(adjusted, Len(text) + 1)
      r == IF adjusted = <<>> THEN [dom |-> d, nodes |-> para.nodes, panic |-> FALSE]
           ELSE split_nodes(d, para.nodes, bs, sep)
  IN  [panic |-> r.panic,
       dom |-> IF adjusted = <<>> \/ r.panic THEN r.dom
               ELSE apply_block_style(r.dom, para.element, cls),
       trace |->
         [element |-> para.element, nodes |-> r.nodes, before |-> para.nodes,
          ends |-> [k \in DOMAIN para.nodes |->
                      Len(Paragraph_text_from(d, SubSeq(para.nodes, 1, k), 1))],
          text |-> text, raw |-> raw, forced |-> forced, adjusted |-> adjusted]]

apply_to_paragraph(p, d, para, sep, cls) ==
  ParagraphRun(p, d, para, sep, cls).dom

(* The loop of apply_to_element over the collected blocks; log keeps what  *)
(* each apply_to_paragraph call computed.                                  *)
RECURSIVE ApplyBlocks(_, _, _, _, _, _)
ApplyBlocks(p, d, blocks, sep, cls, lg) ==
  IF blocks = <<>> THEN [dom |-> d, log |-> lg, panic |-> FALSE]
  ELSE LET block == Head(blocks)
       IN  IF block.nodes # <<>>
             THEN LET r == ParagraphRun(p, d, block, sep, cls)
                  IN  IF r.panic
                        THEN [dom |-> r.dom, log |-> Append(lg, r.trace),
                              panic |-> TRUE]
                        ELSE ApplyBlocks(p, r.dom, Tail(blocks), sep, cls,
                                         Append(lg, r.trace))
             ELSE ApplyBlocks(p, d, Tail(blocks), sep, cls, lg)

apply_to_element(p, d, element, sep, cls) ==
  ApplyBlocks(p, d, collect_blocks(d, element, None, <<>>), sep, cls, <<>>)

-----------------------------------------------------------------------------
(* The trees, models and options explored by the tree applier.             *)

NT(t) == [name |-> "#text", text |-> t, kids |-> <<>>]

NE(n, ks) == [name |-> n, text |-> <<>>, kids |-> ks]

(* The nodes of a nested tree in document order, the first with id `id`.   *)
RECURSIVE Flat(_, _)
RECURSIVE FlatKids(_, _)

FlatKids(ks, next) ==
  IF ks = <<>> THEN [nodes |-> <<>>, ids |-> <<>>]
  ELSE LET first == Flat(Head(ks), next)
           rest == FlatKids(Tail(ks), next + Len(first))
       IN  [nodes |-> first \o rest.nodes, ids |-> <<next>> \o rest.ids]

Flat(n, id) ==
  IF n.name = "#text" THEN <<TextNode(n.text)>>
  ELSE LET k == FlatKids(n.kids, id + 1)
       IN  <<Element(n.name, k.ids)>> \o k.nodes

(* A document: the body, holding the one element that is processed.        *)
Document(root) == <<Element("body", <<RootId>>)>> \o Flat(root, RootId)

TextAB == <<"a", "b">>

ChildTemplates ==
  { NT(TextAB),
    NT(<<"a", ZWSP, "b">>),
    NE("wbr", <<>>),
    NE("br", <<>>),
    NE("pre", <<NT(TextAB)>>),
    NE("strong", <<NT(TextAB)>>),
    NE("nobr", <<NT(TextAB)>>),
    NE("nobr", <<NT(<<"b">>), NE("br", <<>>)>>),
    NE("div", <<NT(TextAB)>>) }

(* The processed element: the span that apply_to_html_string wraps a       *)
(* fragment in (lines 215-221), or a nobr.                                 *)
RootNames == {"span", "nobr"}

Trees ==
  {NE(n, ks) : n \in RootNames, ks \in SeqsUpTo(ChildTemplates, MaxChildren)}

BreakAfterA == OneEntry("UW3", <<"a">>, 1)

(* A negative weight that never matches: every score is positive.          *)
BreakEverywhere == OneEntry("UW6", <<"a", "a">>, 0 - 1)

HtmlModels == {BreakAfterA, BreakEverywhere}

TextSeparator == [kind |-> "Text", text |-> <<ZWSP>>]

NodeSeparator == [kind |-> "Node", node |-> Element("wbr", <<>>)]

Separators == {TextSeparator}

ClassNames == {None}

-----------------------------------------------------------------------------
(* The tree applier as a state machine: an HTMLProcessor built from a      *)
(* parser and options, a tree, and apply_to_element run on it again and    *)
(* again.                                                                  *)

InitHtml ==
  /\ model \in HtmlModels
  /\ base_score = Parser_new(model).base_score
  /\ call = "new"
  /\ sentence = <<>>
  /\ boundaries = <<>>
  /\ chunks = <<>>
  /\ panicked = FALSE
  /\ dom \in {Document(t) : t \in Trees}
  /\ prev_dom = dom
  /\ log = <<>>
  /\ runs = 0
  /\ separator \in Separators
  /\ class_name \in ClassNames
  /\ html_panicked = FALSE
  /\ paragraph = Paragraph_new(RootId)
  /\ json_input = NoDocument
  /\ json_result = NoResult

ApplyToElement ==
  /\ runs < MaxRuns
  /\ ~html_panicked
  /\ LET r == apply_to_element(TheParser, dom, RootId, separator, class_name)
     IN  /\ dom' = r.dom
         /\ log' = r.log
         /\ html_panicked' = r.panic
  /\ prev_dom' = dom
  /\ runs' = runs + 1
  /\ UNCHANGED <<parserVars, separator, class_name, paragraph, jsonVars>>

NextHtml == ApplyToElement

SpecHtml == InitHtml /\ [][NextHtml]_vars

-----------------------------------------------------------------------------
(* apply_to_paragraph and split_nodes on one paragraph: a span whose       *)
(* children are, per content unit, a text node (a splittable unit) or a    *)
(* nobr holding a text node (a literal unit), each followed by a wbr when  *)
(* the unit is flagged "has break opportunity after".                      *)

UnitTemplate(kind, text, flag) == [kind |-> kind, text |-> text, flag |-> flag]

UnitTemplates ==
  { UnitTemplate("Node", <<>>, FALSE),
    UnitTemplate("Node", <<"a">>, FALSE),
    UnitTemplate("Node", TextAB, FALSE),
    UnitTemplate("Node", TextAB, TRUE),
    UnitTemplate("Node", <<"a", ZWSP>>, FALSE),
    UnitTemplate("Node", <<" ">>, FALSE),
    UnitTemplate("Text", <<"a">>, FALSE),
    UnitTemplate("Text", <<"a">>, TRUE),
    UnitTemplate("Text", <<ZWSP>>, FALSE) }

UnitLists == SeqsUpTo(UnitTemplates, MaxUnits)

(* The children of the span for the units us.                              *)
RECURSIVE UnitKids(_)
UnitKids(us) ==
  IF us = <<>> THEN <<>>
  ELSE LET u == Head(us)
           own == IF u.kind = "Node" THEN <<NT(u.text)>>
                  ELSE <<NE("nobr", <<NT(u.text)>>)>>
           mark == IF u.flag THEN <<NE("wbr", <<>>)>> ELSE <<>>
       IN  own \o mark \o UnitKids(Tail(us))

UnitDocument(us) == Document(NE("span", UnitKids(us)))

(* The content units for us; `next` is the id of the first node of us.     *)
RECURSIVE UnitsFrom(_, _)
UnitsFrom(us, next) ==
  IF us = <<>> THEN <<>>
  ELSE LET u == Head(us)
           unit == IF u.kind = "Node" THEN from_node(next) ELSE from_string(u.text)
           used == (IF u.kind = "Node" THEN 1 ELSE 2) + (IF u.flag THEN 1 ELSE 0)
       IN  <<[unit EXCEPT !.has_break_opportunity_after = u.flag]>>
             \o UnitsFrom(Tail(us), next + used)

UnitParagraph(us) == [element |-> RootId, nodes |-> UnitsFrom(us, RootId + 1)]

ParagraphModels == HtmlModels \cup {EmptyModel}

ParagraphSeparators == {TextSeparator, NodeSeparator}

(* The boundaries of a set of offsets, ascending.                          *)
RECURSIVE Ascending(_)
Ascending(B) ==
  IF B = {} THEN <<>>
  ELSE LET m == CHOOSE x \in B : \A y \in B : x <= y
       IN  <<m>> \o Ascending(B \ {m})

InitParagraph ==
  /\ model \in ParagraphModels
  /\ base_score = Parser_new(model).base_score
  /\ call = "new"
  /\ sentence = <<>>
  /\ boundaries = <<>>
  /\ chunks = <<>>
  /\ panicked = FALSE
  /\ \E us \in UnitLists :
       /\ dom = UnitDocument(us)
       /\ paragraph = UnitParagraph(us)
  /\ prev_dom = dom
  /\ log = <<>>
  /\ runs = 0
  /\ separator \in ParagraphSeparators
  /\ class_name = None
  /\ html_panicked = FALSE
  /\ json_input = NoDocument
  /\ json_result = NoResult

(* apply_to_element's "if !block.nodes.is_empty() { apply_to_paragraph }". *)
ApplyToParagraph ==
  /\ call = "new"
  /\ paragraph.nodes # <<>>
  /\ LET r == ParagraphRun(TheParser, dom, paragraph, separator, class_name)
     IN  /\ dom' = r.dom
         /\ log' = <<r.trace>>
         /\ html_panicked' = r.panic
  /\ call' = "apply_to_paragraph"
  /\ prev_dom' = dom
  /\ runs' = 1
  /\ UNCHANGED <<model, base_score, sentence, boundaries, chunks, panicked,
                 separator, class_name, paragraph, jsonVars>>

(* split_nodes as apply_to_paragraph calls it (lines 317-320): on a        *)
(* paragraph with a splittable unit and text that is not blank, with the   *)
(* surviving boundaries, ascending and within 1..len-1, and the sentinel.  *)
SplitNodes ==
  /\ call = "new"
  /\ any_can_split(paragraph.nodes)
  /\ trim(Paragraph_text(dom, paragraph)) # <<>>
  /\ \E B \in SUBSET (1..(Len(Paragraph_text(dom, paragraph)) - 1)) :
       /\ B # {}
       /\ LET text == Paragraph_text(dom, paragraph)
              adjusted == Ascending(B)
              r == split_nodes(dom, paragraph.nodes,
                               Append(adjusted, Len(text) + 1), separator)
          IN  /\ dom' = r.dom
              /\ html_panicked' = r.panic
              /\ log' = <<[element |-> paragraph.element, nodes |-> r.nodes,
                           before |-> paragraph.nodes,
                           ends |-> [k \in DOMAIN paragraph.nodes |->
                                       Len(Paragraph_text_from(
                                             dom, SubSeq(paragraph.nodes, 1, k), 1))],
                           text |-> text, raw |-> adjusted,
                           forced |-> get_forced_opportunities(dom, paragraph),
                           adjusted |-> adjusted, boundary_index |-> r.index]>>
  /\ call' = "split_nodes"
  /\ prev_dom' = dom
  /\ runs' = 1
  /\ UNCHANGED <<model, base_score, sentence, boundaries, chunks, panicked,
                 separator, class_name, paragraph, jsonVars>>

NextParagraph == ApplyToParagraph \/ SplitNodes

SpecParagraph == InitParagraph /\ [][NextParagraph]_vars

-----------------------------------------------------------------------------
(* apply_block_style on one anchor: an element with an existing class or   *)
(* style attribute (or none) and a processor with or without a class name, *)
(* annotated again and again.  A style value is held as a sequence of      *)
(* items, the two declarations of PARENT_STYLE each being one item.        *)

ClassChars == {"k", "j", " "}

StyleItems == Range(PARENT_STYLE) \cup {"c"}

ClassValues == SeqsUpTo(ClassChars, MaxAttr)

StyleValues == SeqsUpTo(StyleItems, MaxAttr)

Attribute(values) == {None} \cup {Some(v) : v \in values}

AnchorDocument(cls, style) ==
  <<Element("body", <<RootId>>),
    [Element("span", <<>>) EXCEPT !.class = cls, !.style = style]>>

InitStyle ==
  /\ model = EmptyModel
  /\ base_score = 0
  /\ call = "new"
  /\ sentence = <<>>
  /\ boundaries = <<>>
  /\ chunks = <<>>
  /\ panicked = FALSE
  /\ \/ /\ class_name \in {Some(v) : v \in ClassValues}
        /\ dom \in {AnchorDocument(c, None) : c \in Attribute(ClassValues)}
     \/ /\ class_name = None
        /\ dom \in {AnchorDocument(None, st) : st \in Attribute(StyleValues)}
  /\ prev_dom = dom
  /\ log = <<>>
  /\ runs = 0
  /\ separator = TextSeparator
  /\ html_panicked = FALSE
  /\ paragraph = Paragraph_new(RootId)
  /\ json_input = NoDocument
  /\ json_result = NoResult

ApplyBlockStyle ==
  /\ runs < MaxRuns
  /\ dom' = apply_block_style(dom, RootId, class_name)
  /\ prev_dom' = dom
  /\ runs' = runs + 1
  /\ UNCHANGED <<parserVars, log, separator, class_name, html_panicked,
                 paragraph, jsonVars>>

NextStyle == ApplyBlockStyle

SpecStyle == InitStyle /\ [][NextStyle]_vars

-----------------------------------------------------------------------------
(* The parser as a state machine: a parser constructed from a model and a  *)
(* sentence handed to it; parse and parse_boundaries are pure functions of *)
(* the two (the parser is borrowed immutably), so each behaviour applies   *)
(* one call to one drawn input.                                            *)

InitParser ==
  /\ model \in Models
  /\ base_score = Parser_new(model).base_score
  /\ call = "new"
  /\ sentence \in Sentences
  /\ boundaries = <<>>
  /\ chunks = <<>>
  /\ panicked = FALSE
  /\ dom = <<>>
  /\ prev_dom = <<>>
  /\ log = <<>>
  /\ runs = 0
  /\ separator = TextSeparator
  /\ class_name = None
  /\ html_panicked = FALSE
  /\ paragraph = Paragraph_new(RootId)
  /\ json_input = NoDocument
  /\ json_result = NoResult

ParseBoundariesCall ==
  /\ call = "new"
  /\ call' = "parse_boundaries"
  /\ IF parse_boundaries_panics(sentence)
       THEN panicked' = TRUE /\ boundaries' = <<>>
       ELSE /\ panicked' = FALSE
            /\ boundaries' = parse_boundaries_from_chars(TheParser, sentence)
  /\ chunks' = <<>>
  /\ UNCHANGED <<model, base_score, sentence, htmlVars, jsonVars>>

ParseCall ==
  /\ call = "new"
  /\ call' = "parse"
  /\ IF Parser_parse_panics(TheParser, sentence)
       THEN panicked' = TRUE /\ boundaries' = <<>> /\ chunks' = <<>>
       ELSE /\ panicked' = FALSE
            /\ boundaries' = parse_boundaries_from_chars(TheParser, sentence)
            /\ chunks' = Parser_parse(TheParser, sentence)
  /\ UNCHANGED <<model, base_score, sentence, htmlVars, jsonVars>>

NextParser == ParseBoundariesCall \/ ParseCall

SpecParser == InitParser /\ [][NextParser]_vars

-----------------------------------------------------------------------------
(* Properties of the boundary scorer.                                      *)

Called == call \in {"parse", "parse_boundaries"}

(* C1: parse_boundaries returns offsets strictly between 0 and the length  *)
(* of the sentence, in strictly increasing order (hence no duplicates).    *)
BoundariesInRangeAndIncreasing ==
  call = "parse_boundaries" =>
    /\ ~panicked
    /\ \A k \in DOMAIN boundaries :
         0 < boundaries[k] /\ boundaries[k] < Len(sentence)
    /\ \A k \in DOMAIN boundaries :
         k > 1 => boundaries[k - 1] < boundaries[k]

BoundariesSeveral ==
  call = "parse_boundaries" /\ Len(boundaries) >= 2 /\ Len(boundaries) < Len(sentence) - 1

(* C2: the chunks of parse, concatenated in order, are the sentence, and a *)
(* non-empty sentence gives one chunk more than it has boundaries.         *)
ParseRoundTrip ==
  call = "parse" =>
    /\ ~panicked
    /\ Concat(chunks) = sentence
    /\ sentence # <<>> => Len(chunks) = Len(boundaries) + 1

ParseThreeChunks == call = "parse" /\ Len(chunks) >= 3 /\ Concat(chunks) = sentence

(* The offsets right before an occurrence of c that is not at position 0.  *)
CutsBefore(s, c) == {i \in 1..(Len(s) - 1) : s[i + 1] = c}

(* C3: with the single entry UW4 -> {c: w}, w > 0, parse cuts exactly      *)
(* before every c that is not the first char, and nowhere else.            *)
SingleUW4SplitsBeforeChar ==
  \A c \in Alphabet : \A w \in {1, TestWeight} :
    (call = "parse" /\ model = OneEntry("UW4", <<c>>, w) /\ sentence # <<>>) =>
      /\ Concat(chunks) = sentence
      /\ Len(chunks) = Cardinality(CutsBefore(sentence, c)) + 1
      /\ ChunkEnds(chunks) = CutsBefore(sentence, c)

SingleCharChunkOnTest ==
  /\ call = "parse"
  /\ model = OneEntry("UW4", <<"b">>, TestWeight)
  /\ sentence = TestSentence
  /\ chunks = << <<"a">>, <<"b", "c", "d", "e", "a">>, <<"b", "c", "d">> >>

(* C4: the empty sentence gives no chunk, a one-char sentence gives that   *)
(* char as its only chunk, and both give no boundary.                      *)
EmptyAndSingleCharSentences ==
  /\ (call = "parse" /\ sentence = <<>>) => (~panicked /\ chunks = <<>>)
  /\ (call = "parse" /\ Len(sentence) = 1) => (~panicked /\ chunks = <<sentence>>)
  /\ (Called /\ Len(sentence) <= 1) => boundaries = <<>>

EmptySentenceParsed ==
  call = "parse" /\ sentence = <<>> /\ chunks = <<>> /\ model # EmptyModel

(* The windows as the scoring rule states them: offsets relative to i,     *)
(* each index clamped to [0, length].                                      *)
RuleWindows ==
  [UW1 |-> <<0 - 3, 0 - 2>>, UW2 |-> <<0 - 2, 0 - 1>>, UW3 |-> <<0 - 1, 0>>,
   UW4 |-> <<0, 1>>, UW5 |-> <<1, 2>>, UW6 |-> <<2, 3>>,
   BW1 |-> <<0 - 2, 0>>, BW2 |-> <<0 - 1, 1>>, BW3 |-> <<0, 2>>,
   TW1 |-> <<0 - 3, 0>>, TW2 |-> <<0 - 2, 1>>, TW3 |-> <<0 - 1, 2>>,
   TW4 |-> <<0, 3>>]

Clamp(x, len) == Max(0, Min(x, len))

RuleSlice(s, i, t) ==
  LET lo == Clamp(i + RuleWindows[t][1], Len(s))
      hi == Clamp(i + RuleWindows[t][2], Len(s))
  IN  [k \in 1..(hi - lo) |-> s[lo + k]]

RuleWeight(m, t, key) ==
  IF t \in DOMAIN m /\ key \in DOMAIN m[t] THEN m[t][key] ELSE 0

RECURSIVE RuleMatched(_, _, _, _)
RuleMatched(m, s, i, tags) ==
  IF tags = {} THEN 0
  ELSE LET t == CHOOSE x \in tags : TRUE
       IN  RuleWeight(m, t, RuleSlice(s, i, t)) + RuleMatched(m, s, i, tags \ {t})

(* C5: offset i is a boundary iff twice the sum of the matched weights of  *)
(* the 13 clamped windows exceeds the sum of all weights of the model, the *)
(* base score being minus half that sum.                                   *)
ScoringRule ==
  Called =>
    /\ base_score = 0 - TotalWeight(model, DOMAIN model)
    /\ \A i \in 1..(Len(sentence) - 1) :
         (i \in Range(boundaries)) <=>
           (2 * RuleMatched(model, sentence, i, FeatureKey)
              > TotalWeight(model, DOMAIN model))

(* A matched weight decides: one offset is a boundary and another is not,  *)
(* in a model of two entries.                                              *)
ScoringRuleDecides ==
  /\ call = "parse_boundaries"
  /\ Cardinality(DOMAIN model) = 2
  /\ Len(sentence) = MaxLen
  /\ boundaries # <<>>
  /\ Len(boundaries) < Len(sentence) - 1

(* The sum of the weights of the windows that are not empty after          *)
(* clamping.                                                               *)
RECURSIVE RuleMatchedNonEmpty(_, _, _, _)
RuleMatchedNonEmpty(m, s, i, tags) ==
  IF tags = {} THEN 0
  ELSE LET t == CHOOSE x \in tags : TRUE
           key == RuleSlice(s, i, t)
       IN  (IF key = <<>> THEN 0 ELSE RuleWeight(m, t, key))
             + RuleMatchedNonEmpty(m, s, i, tags \ {t})

(* C6: no call panics, every window slice is within [0, length], and a     *)
(* window that is out of range contributes zero to the score.              *)
ScorerNeverFailsAndEmptyWindowsAreZero ==
  Called =>
    /\ ~panicked
    /\ \A i \in 1..(Len(sentence) - 1) : \A k \in 1..13 :
         LET w == Windows(Len(sentence), i)[k]
         IN  0 <= w.start /\ w.end <= Len(sentence)
    /\ \A i \in 1..(Len(sentence) - 1) :
         (i \in Range(boundaries)) <=>
           (2 * RuleMatchedNonEmpty(model, sentence, i, FeatureKey)
              > TotalWeight(model, DOMAIN model))

-----------------------------------------------------------------------------
(* Properties of the tree applier.                                         *)

HasAdjacentZwsp(t) == \E k \in 1..(Len(t) - 1) : t[k] = ZWSP /\ t[k + 1] = ZWSP

TextMode == separator.kind = "Text"

(* C7: a second run of apply_to_element (zero-width-space text separator)  *)
(* puts no second separator next to one that is already there: a text node *)
(* without two adjacent zero-width spaces after the first run has none     *)
(* after the second run.                                                   *)
SecondRunAddsNoAdjacentSeparator ==
  (runs = 2 /\ separator = TextSeparator) =>
    \A n \in DOMAIN dom :
      (dom[n].kind = "text" /\ ~HasAdjacentZwsp(prev_dom[n].text))
        => ~HasAdjacentZwsp(dom[n].text)

(* The element right after node n among its siblings, 0 if none.           *)
NextSibling(d, n) ==
  LET q == ParentOf(d, n)
  IN  IF q = 0 THEN 0
      ELSE LET k == IndexIn(d[q].kids, n)
           IN  IF k < Len(d[q].kids) THEN d[q].kids[k + 1] ELSE 0

FollowedByBreakOpportunity(d, u) ==
  /\ u.node.kind = "Node"
  /\ NextSibling(d, u.node.ref) # 0
  /\ action_for_element(d, NextSibling(d, u.node.ref)) = "BreakOpportunity"

(* The offsets of the flattened text at which a paragraph's rewrite put a  *)
(* separator: the chunk ends, but the last, of each splittable unit that   *)
(* got two or more chunks.                                                 *)
InsertedOffsets(rec) ==
  UNION { LET u == rec.nodes[j]
              start == IF j = 1 THEN 0 ELSE rec.ends[j - 1]
          IN  IF can_split(u) /\ Len(u.chunks) >= 2
                THEN {start + e : e \in ChunkEnds(u.chunks)}
                ELSE {}
          : j \in DOMAIN rec.nodes }

(* C8: no separator is inserted at an offset that already has a break      *)
(* opportunity in the markup: the end of a zero-width space, or the end of *)
(* a content unit that a BreakOpportunity element (wbr) directly follows.  *)
ManualBreakOpportunitiesRespected ==
  runs >= 1 =>
    \A r \in DOMAIN log :
      /\ \A k \in InsertedOffsets(log[r]) : log[r].text[k] # ZWSP
      /\ \A j \in DOMAIN log[r].before :
           FollowedByBreakOpportunity(prev_dom, log[r].before[j]) =>
             log[r].ends[j] \notin InsertedOffsets(log[r])

(* The mechanism C8 names: the unit before a wbr is flagged and its end    *)
(* offset is among the forced opportunities of its paragraph.              *)
BreakOpportunityMarkSeen ==
  runs >= 1 =>
    \A r \in DOMAIN log : \A j \in DOMAIN log[r].before :
      FollowedByBreakOpportunity(prev_dom, log[r].before[j]) =>
        /\ log[r].before[j].has_break_opportunity_after
        /\ log[r].ends[j] \in Range(log[r].forced)

IsTextChildOfNoBreak(d, n) ==
  /\ d[n].kind = "text"
  /\ ParentOf(d, n) # 0
  /\ action_for_element(d, ParentOf(d, n)) = "NoBreak"

IsSplittableText(d, n) ==
  /\ d[n].kind = "text"
  /\ ParentOf(d, n) # 0
  /\ action_for_element(d, ParentOf(d, n)) \in {"Inline", "Block"}

IsAnchor(d, n) ==
  d[n].kind = "element" /\ (n = RootId \/ action_for_element(d, n) = "Block")

(* C9: in text-separator mode a run leaves the text of every text child of *)
(* a NoBreak element as it was, leaves every node where it was (same       *)
(* nodes, same names, same children in the same order), and changes only   *)
(* the text of splittable text nodes and the class and style of paragraph  *)
(* anchors.                                                                *)
NoBreakTextAndStructureKept ==
  (runs >= 1 /\ TextMode) =>
    /\ DOMAIN dom = DOMAIN prev_dom
    /\ \A n \in DOMAIN dom :
         /\ dom[n].kind = prev_dom[n].kind
         /\ dom[n].name = prev_dom[n].name
         /\ dom[n].kids = prev_dom[n].kids
         /\ IsTextChildOfNoBreak(prev_dom, n) => dom[n].text = prev_dom[n].text
         /\ dom[n].text # prev_dom[n].text => IsSplittableText(prev_dom, n)
         /\ (dom[n].class # prev_dom[n].class \/ dom[n].style # prev_dom[n].style)
              => IsAnchor(prev_dom, n)

(* A run under the model that breaks everywhere, on a tree that holds a    *)
(* NoBreak element with a two-char text child next to text that was split. *)
NoBreakKeptWhileOthersSplit ==
  /\ runs = 1
  /\ TextMode
  /\ model = BreakEverywhere
  /\ \E n \in DOMAIN dom :
       /\ IsTextChildOfNoBreak(dom, n)
       /\ dom[n].text = TextAB
  /\ \E n \in DOMAIN dom : dom[n].text # prev_dom[n].text
  /\ \E n \in DOMAIN dom : dom[n].style # prev_dom[n].style

-----------------------------------------------------------------------------
(* The model loader as a state machine: a JSON text, then parse_model_json *)
(* applied to it.                                                          *)

JsonKeys == {"UW1", "BW2", "TW4", "uw1", "XX"}

JsonValues == {AMap(<<>>), AMap([k \in {<<"a">>} |-> 1]), NotAMap}

JsonDocuments ==
  {NoDocument} \cup
  {[wellformed |-> TRUE, members |-> f] :
     f \in UNION {[K -> JsonValues] : K \in SUBSET JsonKeys}}

InitJson ==
  /\ model = EmptyModel
  /\ base_score = 0
  /\ call = "new"
  /\ sentence = <<>>
  /\ boundaries = <<>>
  /\ chunks = <<>>
  /\ panicked = FALSE
  /\ dom = <<>>
  /\ prev_dom = <<>>
  /\ log = <<>>
  /\ runs = 0
  /\ separator = TextSeparator
  /\ class_name = None
  /\ html_panicked = FALSE
  /\ paragraph = Paragraph_new(RootId)
  /\ json_input \in JsonDocuments
  /\ json_result = NoResult

ParseModelJson ==
  /\ json_result = NoResult
  /\ json_result' \in parse_model_json(json_input)
  /\ UNCHANGED <<parserVars, htmlVars, json_input>>

NextJson == ParseModelJson

SpecJson == InitJson /\ [][NextJson]_vars

(* The members of a JSON text, when it is an object of maps.               *)
IsModelJson(doc) ==
  doc.wellformed /\ \A k \in DOMAIN doc.members : doc.members[k].map

-----------------------------------------------------------------------------
(* Properties of paragraph collection.                                     *)

HasBreakElement(d) ==
  \E n \in DOMAIN d : d[n].kind = "element" /\ action_for_element(d, n) = "Break"

(* n is a Skip element or lies below one.                                  *)
RECURSIVE UnderSkip(_, _)
UnderSkip(d, n) ==
  /\ n # 0
  /\ \/ d[n].kind = "element" /\ action_for_element(d, n) = "Skip"
     \/ UnderSkip(d, ParentOf(d, n))

(* The elements that anchor a paragraph: the processed element and every   *)
(* Block element the walk reaches.                                         *)
Anchors(d) ==
  {RootId} \cup
  {n \in DOMAIN d : /\ d[n].kind = "element"
                    /\ n # BodyId
                    /\ action_for_element(d, n) = "Block"
                    /\ ~UnderSkip(d, n)}

(* The text nodes below the children `kids`, in document order, that are   *)
(* reached through Inline and NoBreak elements only.                       *)
RECURSIVE TextBelow(_, _)
TextBelow(d, kids) ==
  IF kids = <<>> THEN <<>>
  ELSE LET c == Head(kids)
           here == IF d[c].kind = "text" THEN <<c>>
                   ELSE IF action_for_element(d, c) \in {"Inline", "NoBreak"}
                     THEN TextBelow(d, d[c].kids)
                   ELSE <<>>
       IN  here \o TextBelow(d, Tail(kids))

TextsOf(d, ns) == Concat([k \in DOMAIN ns |-> d[ns[k]].text])

(* C11: in a tree without Break elements, every anchor with text below it  *)
(* gets one paragraph whose flattened text is the text of all text nodes   *)
(* below the anchor that are reached through Inline and NoBreak elements,  *)
(* in document order.                                                      *)
ParagraphHoldsAllInlineText ==
  (runs = 1 /\ ~HasBreakElement(prev_dom)) =>
    \A e \in Anchors(prev_dom) :
      LET units == TextBelow(prev_dom, prev_dom[e].kids)
      IN  units # <<>> =>
            \E r \in DOMAIN log :
              /\ log[r].element = e
              /\ log[r].text = TextsOf(prev_dom, units)

(* The paragraphs of a run, by index in log, that hold text node n.        *)
ParagraphsHolding(n) ==
  {r \in DOMAIN log :
     \E j \in DOMAIN log[r].before :
       log[r].before[j].node.kind = "Node" /\ log[r].before[j].node.ref = n}

(* Node ids follow document order, so a Break element lies between two     *)
(* text nodes when its id lies between theirs.                             *)
BreakBetween(d, m, n) ==
  \E b \in DOMAIN d :
    /\ d[b].kind = "element"
    /\ action_for_element(d, b) = "Break"
    /\ m < b /\ b < n

(* C12: over one apply_to_element walk every text node belongs to at most  *)
(* one emitted paragraph, and no emitted paragraph holds text from before  *)
(* and from after a Break element.                                         *)
BreakFlushesParagraph ==
  runs = 1 =>
    /\ \A n \in DOMAIN prev_dom :
         prev_dom[n].kind = "text" => Cardinality(ParagraphsHolding(n)) <= 1
    /\ \A r \in DOMAIN log : \A j, k \in DOMAIN log[r].before :
         (/\ j < k
          /\ log[r].before[j].node.kind = "Node"
          /\ log[r].before[k].node.kind = "Node")
           => ~BreakBetween(prev_dom, log[r].before[j].node.ref,
                            log[r].before[k].node.ref)

-----------------------------------------------------------------------------
(* Properties of apply_to_paragraph and split_nodes on one paragraph.      *)

NodeMode == separator.kind = "Node"

Shape(d, n) == [name |-> d[n].name, text |-> d[n].text]

(* The chunks split_nodes gave to the text node n, <<>> when n is no       *)
(* splittable unit of the paragraph.                                       *)
ChunksOf(rec, n) ==
  IF \E j \in DOMAIN rec.nodes :
       rec.nodes[j].node.kind = "Node" /\ rec.nodes[j].node.ref = n
    THEN LET j == CHOOSE j \in DOMAIN rec.nodes :
                    rec.nodes[j].node.kind = "Node" /\ rec.nodes[j].node.ref = n
         IN  rec.nodes[j].chunks
    ELSE <<>>

(* chunk, separator, chunk, ...: a text node per non-empty chunk, one      *)
(* separator between two chunks, none after the last.                      *)
RECURSIVE Alternating(_, _)
Alternating(cs, sep_shape) ==
  IF cs = <<>> THEN <<>>
  ELSE (IF Head(cs) # <<>> THEN <<[name |-> "", text |-> Head(cs)]>> ELSE <<>>)
         \o (IF Len(cs) > 1 THEN <<sep_shape>> ELSE <<>>)
         \o Alternating(Tail(cs), sep_shape)

(* What the children kids of an element should have become.                *)
RECURSIVE ReplacedInPlace(_, _, _, _)
ReplacedInPlace(d, rec, kids, sep_shape) ==
  IF kids = <<>> THEN <<>>
  ELSE LET n == Head(kids)
           cs == ChunksOf(rec, n)
       IN  (IF Len(cs) >= 2 THEN Alternating(cs, sep_shape) ELSE <<Shape(d, n)>>)
             \o ReplacedInPlace(d, rec, Tail(kids), sep_shape)

(* C13: in node-separator mode a text node with two or more chunks is      *)
(* replaced, at its place among its siblings, by its non-empty chunks with *)
(* one separator clone between two chunks and none after the last; the     *)
(* other children keep their place.                                        *)
NodeSeparatorReplacesInPlace ==
  (runs = 1 /\ NodeMode /\ ~html_panicked) =>
    \A r \in DOMAIN log :
      LET e == log[r].element
          kids == dom[e].kids
      IN  [k \in DOMAIN kids |-> Shape(dom, kids[k])]
            = ReplacedInPlace(prev_dom, log[r], prev_dom[e].kids,
                              [name |-> separator.node.name, text |-> <<>>])

(* C14: when a literal unit directly follows a splittable unit and a       *)
(* surviving boundary equals the literal unit's start offset, the          *)
(* splittable unit gets an empty trailing chunk, so that in text-separator *)
(* mode its text node ends with a separator; the text of a literal unit    *)
(* is never rewritten.                                                     *)
BreakBeforeLiteralEndsPreviousUnit ==
  (runs = 1 /\ TextMode /\ ~html_panicked) =>
    /\ \A r \in DOMAIN log : \A j \in DOMAIN log[r].nodes :
         (/\ j >= 2
          /\ ~can_split(log[r].nodes[j])
          /\ can_split(log[r].nodes[j - 1])
          /\ log[r].ends[j - 1] \in Range(log[r].adjusted))
           => LET prev == log[r].nodes[j - 1]
                  new_text == dom[prev.node.ref].text
              IN  /\ Len(prev.chunks) >= 2
                  /\ prev.chunks[Len(prev.chunks)] = <<>>
                  /\ new_text # <<>>
                  /\ new_text[Len(new_text)] = ZWSP
    /\ \A n \in DOMAIN prev_dom :
         IsTextChildOfNoBreak(prev_dom, n) => dom[n].text = prev_dom[n].text

(* The forced offsets of a paragraph as C15 gives them: one past every     *)
(* zero-width space of a splittable unit, and the end of every unit        *)
(* flagged "has break opportunity after".                                  *)
ForcedSetOf(rec) ==
  LET start(j) == IF j = 1 THEN 0 ELSE rec.ends[j - 1]
  IN  UNION { {start(j) + q : q \in {q \in 1..(rec.ends[j] - start(j)) :
                                       rec.text[start(j) + q] = ZWSP}}
              : j \in {j \in DOMAIN rec.before : can_split(rec.before[j])} }
      \cup {rec.ends[j] : j \in {j \in DOMAIN rec.before :
                                   rec.before[j].has_break_opportunity_after}}

(* C15: the forced opportunities of a paragraph are exactly that set, and  *)
(* exclude_forced_opportunities returns the raw boundaries outside it, in  *)
(* their order.                                                            *)
ForcedOpportunitiesExcluded ==
  call = "apply_to_paragraph" =>
    \A r \in DOMAIN log :
      /\ Range(log[r].forced) = ForcedSetOf(log[r])
      /\ log[r].adjusted =
           SelectSeq(log[r].raw, LAMBDA b : b \notin ForcedSetOf(log[r]))

(* A paragraph with a zero-width space in a splittable unit and one in a   *)
(* literal unit, where a raw boundary is dropped and another survives.     *)
ForcedBoundaryDropped ==
  /\ call = "apply_to_paragraph"
  /\ \E r \in DOMAIN log :
       /\ \E j \in DOMAIN log[r].before :
            ~can_split(log[r].before[j]) /\ log[r].before[j].node.text = <<ZWSP>>
       /\ \E b \in Range(log[r].raw) : b \in Range(log[r].forced)
       /\ log[r].adjusted # <<>>
       /\ Len(log[r].adjusted) < Len(log[r].raw)

(* text with sep put in front of the char at each 0-based offset of B.     *)
RECURSIVE WithSeparators(_, _, _, _)
WithSeparators(text, B, sep, k) ==
  IF k >= Len(text) THEN <<>>
  ELSE (IF k \in B THEN sep ELSE <<>>) \o <<text[k + 1]>>
         \o WithSeparators(text, B, sep, k + 1)

UnitStart(rec, j) == IF j = 1 THEN 0 ELSE rec.ends[j - 1]

(* The offsets of the flattened text at which unit j was cut.              *)
UnitBreaks(rec, j) ==
  IF Len(rec.nodes[j].chunks) >= 2
    THEN {UnitStart(rec, j) + e : e \in ChunkEnds(rec.nodes[j].chunks)}
    ELSE {}

AllSplittable(nodes) == \A j \in DOMAIN nodes : can_split(nodes[j])

(* C16: for a paragraph of splittable text-node units and any ascending    *)
(* boundaries within 1..len-1, split_nodes with the text separator leaves  *)
(* the flattened text with one separator at each boundary offset and       *)
(* nowhere else; the chunks of a unit concatenate to its text; each        *)
(* boundary cuts exactly one unit, the one whose half-open interval        *)
(* [start, end) holds it.                                                  *)
SplitNodesPutsOneSeparatorPerBoundary ==
  (call = "split_nodes" /\ TextMode /\ AllSplittable(paragraph.nodes)) =>
    \A r \in DOMAIN log :
      LET rec == log[r]
          B == Range(rec.adjusted)
      IN  /\ ~html_panicked
          /\ Paragraph_text(dom, paragraph)
               = WithSeparators(rec.text, B, separator.text, 0)
          /\ \A j \in DOMAIN rec.nodes :
               \/ rec.nodes[j].chunks = <<>>
               \/ Concat(rec.nodes[j].chunks)
                    = SubSeq(rec.text, UnitStart(rec, j) + 1, rec.ends[j])
          /\ \A b \in B :
               /\ Cardinality({j \in DOMAIN rec.nodes : b \in UnitBreaks(rec, j)}) = 1
               /\ \A j \in DOMAIN rec.nodes :
                    b \in UnitBreaks(rec, j) =>
                      UnitStart(rec, j) <= b /\ b < rec.ends[j]

(* Two text nodes cut at the end of the first and at one more offset.      *)
BoundaryAtUnitEndSplit ==
  /\ call = "split_nodes"
  /\ TextMode
  /\ AllSplittable(paragraph.nodes)
  /\ Len(paragraph.nodes) >= 2
  /\ \E r \in DOMAIN log :
       /\ log[r].ends[1] \in Range(log[r].adjusted)
       /\ log[r].ends[1] > 0
       /\ Len(log[r].adjusted) >= 2
       /\ log[r].nodes[2].chunks # <<>>
       /\ log[r].nodes[2].chunks[1] = <<>>

-----------------------------------------------------------------------------
(* Properties of apply_block_style.                                        *)

(* C17: annotating an anchor twice gives the same class, respectively      *)
(* style, attribute as annotating it once, for every existing attribute    *)
(* value and every configured class name.                                  *)
AnchorAnnotationIdempotent ==
  runs >= 2 =>
    /\ dom[RootId].class = prev_dom[RootId].class
    /\ dom[RootId].style = prev_dom[RootId].style

(* The same for a class name that is one item of a class list: not empty   *)
(* and without whitespace; and for the style declaration.                  *)
OneClassAnnotationIdempotent ==
  (/\ runs >= 2
   /\ class_name.some => /\ class_name.value # <<>>
                         /\ \A k \in DOMAIN class_name.value :
                              ~IsWhitespace(class_name.value[k]))
    => /\ dom[RootId].class = prev_dom[RootId].class
       /\ dom[RootId].style = prev_dom[RootId].style

(* The boundaries of a paragraph's text that are no forced offsets.        *)
Surviving(rec) ==
  SelectSeq(parse_boundaries_from_chars(TheParser, rec.text),
            LAMBDA b : b \notin ForcedSetOf(rec))

(* C18: apply_to_paragraph leaves the whole tree as it was when the        *)
(* paragraph has no splittable unit, when its text is empty or blank, when *)
(* the scorer gives no boundary or when no boundary survives exclusion;    *)
(* the anchor's class or style changes only when a boundary survived.      *)
SkippedParagraphLeftAlone ==
  call = "apply_to_paragraph" =>
    \A r \in DOMAIN log :
      LET rec == log[r]
          e == rec.element
      IN  /\ (\/ ~any_can_split(rec.before)
              \/ trim(rec.text) = <<>>
              \/ parse_boundaries_from_chars(TheParser, rec.text) = <<>>
              \/ Surviving(rec) = <<>>)
               => dom = prev_dom
          /\ (\/ dom[e].class # prev_dom[e].class
              \/ dom[e].style # prev_dom[e].style)
               => Surviving(rec) # <<>>

(* A paragraph with a splittable unit and text whose every boundary is a   *)
(* forced offset: it is skipped.                                           *)
AllBoundariesForcedSkipped ==
  /\ call = "apply_to_paragraph"
  /\ \E r \in DOMAIN log :
       /\ any_can_split(log[r].before)
       /\ parse_boundaries_from_chars(TheParser, log[r].text) # <<>>
       /\ Surviving(log[r]) = <<>>
  /\ dom = prev_dom

-----------------------------------------------------------------------------
(* Properties of Skip elements.                                            *)

IsSkip(d, n) == d[n].kind = "element" /\ action_for_element(d, n) = "Skip"

(* The tree with every Skip element taken out of its parent's children.    *)
WithoutSkip(d) ==
  [n \in DOMAIN d |->
     [d[n] EXCEPT !.kids = SelectSeq(@, LAMBDA c : ~IsSkip(d, c))]]

(* C19: a run changes no node that is a Skip element or lies below one and *)
(* puts no text node from below a Skip element in a paragraph; the         *)
(* paragraphs collected are those of the tree without its Skip elements,   *)
(* so a Skip element neither flushes nor marks the paragraph around it.    *)
SkipSubtreeContributesNothing ==
  runs >= 1 =>
    /\ \A n \in DOMAIN prev_dom :
         UnderSkip(prev_dom, n) =>
           /\ dom[n] = prev_dom[n]
           /\ ParagraphsHolding(n) = {}
    /\ collect_blocks(prev_dom, RootId, None, <<>>)
         = collect_blocks(WithoutSkip(prev_dom), RootId, None, <<>>)

(* A pre with text between two text nodes that a run split.                *)
SkipKeptBetweenSplitText ==
  /\ runs = 1
  /\ \E n \in DOMAIN dom :
       /\ IsSkip(dom, n)
       /\ dom[n].kids # <<>>
       /\ \E m \in DOMAIN dom : m < n /\ dom[m].text # prev_dom[m].text
       /\ \E m \in DOMAIN dom : m > n + 1 /\ dom[m].text # prev_dom[m].text

-----------------------------------------------------------------------------
(* C20: in a call of the scorer, a feature window that is empty after      *)
(* clamping adds a weight of 0 to the score of its offset, whatever keys   *)
(* the model holds for the window's tag.                                   *)
EmptyWindowWeighsZero ==
  Called =>
    \A i \in 1..(Len(sentence) - 1) : \A k \in 1..13 :
      LET w == Windows(Len(sentence), i)[k]
      IN  w.start = w.end =>
            weight(model, w.group, substring(sentence, w.start, w.end)) = 0

-----------------------------------------------------------------------------
(* The boundaries that fall in the half-open interval of unit j.           *)
OwnBoundaries(rec, j) ==
  {b \in Range(rec.adjusted) : UnitStart(rec, j) <= b /\ b < rec.ends[j]}

(* C21: split_nodes, given ascending boundaries within 1..len-1 and the    *)
(* sentinel len+1, never reads past its boundary list: no index runs off,  *)
(* boundary_index ends at or before the sentinel, every splittable unit is *)
(* cut exactly at the boundaries within its interval, each once, by slices *)
(* that lie within its text, and the sentinel is no slice point.           *)
SplitNodesStaysWithinBoundaries ==
  call = "split_nodes" =>
    \A r \in DOMAIN log :
      LET rec == log[r]
      IN  /\ ~html_panicked
          /\ rec.boundary_index <= Len(rec.adjusted)
          /\ \A j \in DOMAIN rec.nodes :
               can_split(rec.nodes[j]) =>
                 LET own == OwnBoundaries(rec, j)
                     cs == rec.nodes[j].chunks
                 IN  /\ own = {} => cs = <<>>
                     /\ own # {} =>
                          /\ Len(cs) = Cardinality(own) + 1
                          /\ UnitBreaks(rec, j) = own
                          /\ Concat(cs)
                               = SubSeq(rec.text, UnitStart(rec, j) + 1, rec.ends[j])
                     /\ (Len(rec.text) + 1) \notin UnitBreaks(rec, j)

(* A splittable unit that was cut, followed by a literal unit whose        *)
(* interval holds a boundary; every boundary up to the sentinel is used.   *)
BoundariesUsedUpAcrossLiteral ==
  /\ call = "split_nodes"
  /\ \E r \in DOMAIN log :
       /\ \E j \in DOMAIN log[r].nodes :
            /\ j >= 2
            /\ ~can_split(log[r].nodes[j])
            /\ OwnBoundaries(log[r], j) # {}
            /\ can_split(log[r].nodes[j - 1])
            /\ Len(log[r].nodes[j - 1].chunks) >= 2
       /\ log[r].boundary_index = Len(log[r].adjusted)
       /\ Len(log[r].adjusted) >= 2

Spec == SpecParser

====
